---------------------------- MODULE Spec2Model ----------------------------
(***************************************************************************)
(* A model of world_map.py: the WorldMap class that assembles one record   *)
(* per exported sample table (create_df, with its helper get_value),       *)
(* builds the map figure (create_world_map_fig) and handles clicks on the  *)
(* map (select_point).                                                     *)
(*                                                                         *)
(* Python values are modelled as follows.                                  *)
(*   - a str is a sequence of one-character strings;                       *)
(*   - a float is a record [k, n, d]: k = "fin" is the rational n/d in     *)
(*     lowest terms (d > 0), k = "nan" is NaN, k = "inf" is an infinity of *)
(*     sign n, and k = "zde" stands for a ZeroDivisionError raised while   *)
(*     the value was computed.  Rounding of IEEE doubles is not modelled:  *)
(*     finite arithmetic is exact;                                         *)
(*   - a table cell is a record [t, v, s, id]: t = "float" holds the float *)
(*     v, t = "str" holds the text s, t = "none" is None.  id tells apart  *)
(*     distinct NaN objects: Python's == on dicts compares values by       *)
(*     identity first, so a NaN equals only the very same object.          *)
(***************************************************************************)
EXTENDS Integers, Sequences, FiniteSets, TLC

VARIABLES
    sources,     \* create_df: what find_tsv_files and load_dataframe deliver
    pc,          \* position in WorldMap.__init__ / create_df
    data_list,   \* create_df: the list of built record dicts
    df,          \* self.df: the assembled dataset
    fig,         \* self.fig: the shared figure (marker opacity, customdata)
    published,   \* calls received by controller.publish, in order
    clickData,   \* the clickData of the last select_point call
    handled,     \* how the last select_point call ended
    df_temp,     \* one loaded table
    nb_objects,  \* its object count
    tsv,         \* its path
    column,      \* get_value: the column asked for
    default,     \* get_value: the default
    value,       \* get_value: what the call returned
    data,        \* the record dict built for one source
    filename     \* the filename computed from tsv

vars == <<sources, pc, data_list, df, fig, published, clickData, handled,
          df_temp, nb_objects, tsv, column, default, value, data, filename>>

---------------------------------------------------------------------------
(* Floats. *)

RECURSIVE GCD(_, _)
GCD(a, b) == IF b = 0 THEN a ELSE GCD(b, a % b)

Abs(x) == IF x < 0 THEN -x ELSE x

Rat(n, d) ==
    LET s == IF d < 0 THEN -1 ELSE 1
        g == GCD(Abs(n), Abs(d))
    IN  [k |-> "fin", n |-> (s * n) \div g, d |-> (s * d) \div g]

NaN == [k |-> "nan", n |-> 0, d |-> 1]
Inf(s) == [k |-> "inf", n |-> s, d |-> 1]
ZeroDivisionError == [k |-> "zde", n |-> 0, d |-> 1]

IsFinite(x) == x.k = "fin"
IsZero(x) == x.k = "fin" /\ x.n = 0
Sign(x) == IF x.n < 0 THEN -1 ELSE 1

\* float * float
FMul(a, b) ==
    IF a.k = "zde" \/ b.k = "zde" THEN ZeroDivisionError
    ELSE IF a.k = "nan" \/ b.k = "nan" THEN NaN
    ELSE IF a.k = "inf" \/ b.k = "inf"
         THEN IF IsZero(a) \/ IsZero(b) THEN NaN ELSE Inf(Sign(a) * Sign(b))
    ELSE Rat(a.n * b.n, a.d * b.d)

\* float / float: Python raises ZeroDivisionError on a zero divisor
FDiv(a, b) ==
    IF a.k = "zde" \/ b.k = "zde" THEN ZeroDivisionError
    ELSE IF IsZero(b) THEN ZeroDivisionError
    ELSE IF a.k = "nan" \/ b.k = "nan" THEN NaN
    ELSE IF a.k = "inf" THEN (IF b.k = "inf" THEN NaN ELSE Inf(Sign(a) * Sign(b)))
    ELSE IF b.k = "inf" THEN Rat(0, 1)
    ELSE Rat(a.n * b.d, a.d * b.n)

\* bool(float): only zero is falsy; NaN and the infinities are truthy
Truthy(x) == ~IsZero(x)

---------------------------------------------------------------------------
(* Cells and float(). *)

FloatCell(x) == [t |-> "float", v |-> x, s |-> <<>>, id |-> 0]
StrCell(s) == [t |-> "str", v |-> Rat(0, 1), s |-> s, id |-> 0]
None == [t |-> "none", v |-> Rat(0, 1), s |-> <<>>, id |-> 0]

Digits == <<"0", "1", "2", "3", "4", "5", "6", "7", "8", "9">>
IsDigit(c) == \E i \in 1..10 : Digits[i] = c
DigitVal(c) == (CHOOSE i \in 1..10 : Digits[i] = c) - 1

RECURSIVE NatOf(_)
NatOf(s) ==
    IF Len(s) = 0 THEN 0
    ELSE NatOf(SubSeq(s, 1, Len(s) - 1)) * 10 + DigitVal(s[Len(s)])

RECURSIVE Pow10(_)
Pow10(e) == IF e = 0 THEN 1 ELSE 10 * Pow10(e - 1)

\* float(str): an optional sign, then "nan", "inf" or a decimal number
ParseFloat(s) ==
    LET neg  == Len(s) > 0 /\ s[1] = "-"
        sgn  == Len(s) > 0 /\ s[1] \in {"-", "+"}
        body == IF sgn THEN SubSeq(s, 2, Len(s)) ELSE s
        dots == {i \in 1..Len(body) : body[i] = "."}
        dot  == IF dots = {} THEN Len(body) + 1 ELSE CHOOSE i \in dots : TRUE
        int  == SubSeq(body, 1, dot - 1)
        frac == SubSeq(body, dot + 1, Len(body))
        isNum == /\ Cardinality(dots) <= 1
                 /\ Len(int) + Len(frac) > 0
                 /\ \A i \in 1..Len(body) : i \in dots \/ IsDigit(body[i])
        mag  == Rat(NatOf(int \o frac), Pow10(Len(frac)))
    IN  IF body = <<"n", "a", "n">> THEN [exc |-> "none", v |-> NaN]
        ELSE IF body = <<"i", "n", "f">>
             THEN [exc |-> "none", v |-> Inf(IF neg THEN -1 ELSE 1)]
        ELSE IF isNum
             THEN [exc |-> "none", v |-> IF neg THEN Rat(-mag.n, mag.d) ELSE mag]
        ELSE [exc |-> "ValueError", v |-> NaN]

\* float(x) for a cell x
PyFloat(x) ==
    IF x.t = "float" THEN [exc |-> "none", v |-> x.v]
    ELSE IF x.t = "str" THEN ParseFloat(x.s)
    ELSE [exc |-> "TypeError", v |-> NaN]

---------------------------------------------------------------------------
(* Tables: empty says the table has no rows; row maps each column the      *)
(* table has to the cell of its first row.                                 *)

HasColumn(t, c) == c \in DOMAIN t.row
ColumnEmpty(t, c) == t.empty

\* df[column].iloc[0]: a float read from a numeric column is a new object
\* on every read; obj names the object created by this read
Iloc0(t, c, obj) ==
    LET x == t.row[c]
    IN  IF x.t = "float" /\ x.v.k = "nan" THEN [x EXCEPT !.id = obj] ELSE x

\* get_value without the zero test: "return value"
GetValue_ZeroKept(t, c, dflt) ==
    IF HasColumn(t, c) /\ ~ColumnEmpty(t, c)
    THEN LET r == PyFloat(t.row[c])
         IN  IF r.exc \in {"ValueError", "TypeError"}
             THEN [raised |-> "none", v |-> dflt]
             ELSE IF r.exc # "none" THEN [raised |-> r.exc, v |-> NaN]
             ELSE [raised |-> "none", v |-> r.v]
    ELSE [raised |-> "none", v |-> dflt]

\* get_value(df, column, default)
GetValue(t, c, dflt) ==
    IF HasColumn(t, c) /\ ~ColumnEmpty(t, c)
    THEN LET r == PyFloat(t.row[c])
         IN  IF r.exc \in {"ValueError", "TypeError"}
             THEN [raised |-> "none", v |-> dflt]
             ELSE IF r.exc # "none" THEN [raised |-> r.exc, v |-> NaN]
             ELSE [raised |-> "none", v |-> IF Truthy(r.v) THEN r.v ELSE dflt]
    ELSE [raised |-> "none", v |-> dflt]

---------------------------------------------------------------------------
(* The filename of a source path. *)

ZipToken == <<"z", "i", "p", ":">>

\* os.path.basename (posix): what follows the last "/"
Basename(p) ==
    LET slashes == {i \in 1..Len(p) : p[i] = "/"}
        last == IF slashes = {} THEN 0
                ELSE CHOOSE i \in slashes : \A j \in slashes : j <= i
    IN  SubSeq(p, last + 1, Len(p))

\* str.find(sep): the first position at which sep occurs in s, 0 if none
Find(s, sep) ==
    LET hits == {i \in 1..(Len(s) - Len(sep) + 1) :
                    SubSeq(s, i, i + Len(sep) - 1) = sep}
    IN  IF hits = {} THEN 0 ELSE CHOOSE i \in hits : \A j \in hits : i <= j

\* str.split(sep): cut at each occurrence of sep, scanning from the left
RECURSIVE Split(_, _)
Split(s, sep) ==
    LET i == Find(s, sep)
    IN  IF i = 0 THEN <<s>>
        ELSE <<SubSeq(s, 1, i - 1)>> \o Split(SubSeq(s, i + Len(sep), Len(s)), sep)

\* the filename taken from the first part of the split: split("zip:")[0]
FileName_FirstPart(p) == Split(Basename(p), ZipToken)[1]

\* filename = os.path.basename(tsv); filename = filename.split("zip:")[-1]
FileName(p) ==
    LET parts == Split(Basename(p), ZipToken)
    IN  parts[Len(parts)]

---------------------------------------------------------------------------
(* One record per source. *)

One == Rat(1, 1)
Thousand == Rat(1000, 1)

\* df_temp[c].iloc[0] if c in df_temp.columns and not df_temp[c].empty else None
FirstOrNone(t, c, obj) ==
    IF HasColumn(t, c) /\ ~ColumnEmpty(t, c) THEN Iloc0(t, c, obj) ELSE None

\* a float computed by the interpreter is a new object
NewFloat(x, obj) ==
    IF x.k = "nan" THEN [FloatCell(x) EXCEPT !.id = obj] ELSE FloatCell(x)

\* the expression without the inner parentheses: ... / total_volume * 1000
ObjectsPerMl_WrongPrecedence(nb, iv, dil, csv, tv) ==
    FMul(FMul(FDiv(Rat(nb, 1), iv), dil), FMul(FDiv(csv, tv), Thousand))

\* (nb_objects / acq_imaged_volume) * sample_dilution_factor
\*   * (sample_concentrated_sample_volume / (sample_total_volume * 1000))
ObjectsPerMl(nb, iv, dil, csv, tv) ==
    FMul(FMul(FDiv(Rat(nb, 1), iv), dil), FDiv(csv, FMul(tv, Thousand)))

\* the body of the loop of create_df for the source (path, t, nb); obj
\* names the objects this iteration creates
BuildRecord(path, t, nb, obj) ==
    LET acq_imaged_volume == GetValue(t, "acq_imaged_volume", One).v
        sample_dilution_factor == GetValue(t, "sample_dilution_factor", One).v
        sample_concentrated_sample_volume ==
            GetValue(t, "sample_concentrated_sample_volume", One).v
        sample_total_volume == GetValue(t, "sample_total_volume", One).v
    IN  [filename   |-> FileName(path),
         objects_ml |-> NewFloat(ObjectsPerMl(nb, acq_imaged_volume,
                            sample_dilution_factor,
                            sample_concentrated_sample_volume,
                            sample_total_volume), obj),
         date       |-> FirstOrNone(t, "acq_local_datetime", obj),
         lat        |-> FirstOrNone(t, "object_lat", obj),
         lon        |-> FirstOrNone(t, "object_lon", obj)]

---------------------------------------------------------------------------
(* Equality of record dicts, and the removal of duplicates. *)

IsNaNCell(x) == x.t = "float" /\ x.v.k = "nan"

\* x == y as dict comparison evaluates it: the same object, or equal values
\* (NaN is equal to no value, itself included)
PyEq(x, y) ==
    \/ x = y                        \* x is y: same content, same object
    \/ ~IsNaNCell(x) /\ ~IsNaNCell(y) /\ x.t = y.t /\ x.v = y.v /\ x.s = y.s

DictEq(a, b) ==
    /\ a.filename = b.filename
    /\ PyEq(a.objects_ml, b.objects_ml)
    /\ PyEq(a.date, b.date)
    /\ PyEq(a.lat, b.lat)
    /\ PyEq(a.lon, b.lon)

\* i in lst
Contains(lst, i) == \E k \in 1..Len(lst) : DictEq(lst[k], i)

\* the removal that keeps the first of equal records: i not in data_list[:n]
RECURSIVE KeepFirstFrom(_, _)
KeepFirstFrom(lst, n) ==
    IF n > Len(lst) THEN <<>>
    ELSE (IF Contains(SubSeq(lst, 1, n - 1), lst[n]) THEN <<>> ELSE <<lst[n]>>)
         \o KeepFirstFrom(lst, n + 1)

RECURSIVE DedupFrom(_, _)
DedupFrom(lst, n) ==
    IF n > Len(lst) THEN <<>>
    ELSE (IF Contains(SubSeq(lst, n + 1, Len(lst)), lst[n]) THEN <<>> ELSE <<lst[n]>>)
         \o DedupFrom(lst, n + 1)

Dedup_KeepFirst(lst) == KeepFirstFrom(lst, 1)

\* [i for n, i in enumerate(data_list) if i not in data_list[n + 1:]]
Dedup(lst) == DedupFrom(lst, 1)

---------------------------------------------------------------------------
(* Dates: pd.to_datetime and .dt.strftime('%Y-%m-%d'). *)

NaT == [k |-> "NaT", y |-> 0, mo |-> 0, d |-> 0, h |-> 0, mi |-> 0, s |-> 0]

IsLeap(y) == (y % 4 = 0 /\ y % 100 # 0) \/ y % 400 = 0
DaysIn(y, mo) ==
    IF mo = 2 THEN (IF IsLeap(y) THEN 29 ELSE 28)
    ELSE IF mo \in {4, 6, 9, 11} THEN 30 ELSE 31

AllDigits(s, idx) == \A i \in idx : IsDigit(s[i])

\* the timestamp a text denotes: "YYYY-MM-DD" or "YYYY-MM-DD HH:MM:SS" (the
\* two halves separated by "T" or a space); anything else fails to parse.
\* Of the formats pandas reads, only these two are modelled.
ParseDatetime(s) ==
    LET dateOk == /\ Len(s) \in {10, 19}
                  /\ AllDigits(s, {1, 2, 3, 4, 6, 7, 9, 10})
                  /\ s[5] = "-" /\ s[8] = "-"
        timeOk == Len(s) = 19 =>
                  /\ s[11] \in {"T", " "}
                  /\ AllDigits(s, {12, 13, 15, 16, 18, 19})
                  /\ s[14] = ":" /\ s[17] = ":"
        y  == NatOf(SubSeq(s, 1, 4))
        mo == NatOf(SubSeq(s, 6, 7))
        d  == NatOf(SubSeq(s, 9, 10))
        h  == IF Len(s) = 19 THEN NatOf(SubSeq(s, 12, 13)) ELSE 0
        mi == IF Len(s) = 19 THEN NatOf(SubSeq(s, 15, 16)) ELSE 0
        sc == IF Len(s) = 19 THEN NatOf(SubSeq(s, 18, 19)) ELSE 0
    IN  IF /\ dateOk /\ timeOk
           /\ mo \in 1..12 /\ d \in 1..DaysIn(y, mo)
           /\ h < 24 /\ mi < 60 /\ sc < 60
        THEN [exc |-> "none",
              ts |-> [k |-> "ts", y |-> y, mo |-> mo, d |-> d,
                      h |-> h, mi |-> mi, s |-> sc]]
        ELSE [exc |-> "ValueError", ts |-> NaT]

\* pd.to_datetime of one value of the date column (None, NaN or a text)
ToDatetime(x) ==
    IF x.t = "none" \/ IsNaNCell(x) THEN [exc |-> "none", ts |-> NaT]
    ELSE IF x.t = "str" THEN ParseDatetime(x.s)
    ELSE [exc |-> "TypeError", ts |-> NaT]

\* the decimal digits of n, zero-padded to width w
RECURSIVE Pad(_, _)
Pad(n, w) == IF w = 0 THEN <<>> ELSE Pad(n \div 10, w - 1) \o <<Digits[(n % 10) + 1]>>

\* Series.dt.strftime('%Y-%m-%d'): NaT gives NaN
Strftime(ts) ==
    IF ts.k = "NaT" THEN FloatCell(NaN)
    ELSE StrCell(Pad(ts.y, 4) \o <<"-">> \o Pad(ts.mo, 2) \o <<"-">> \o Pad(ts.d, 2))

\* pd.to_datetime(..., errors='coerce'): no value makes it raise
ToDatetimeRaises_Coerce(lst) == FALSE

\* pd.to_datetime(df['date']) raises when a value of the column does
ToDatetimeRaises(lst) == \E i \in 1..Len(lst) : ToDatetime(lst[i].date).exc # "none"

\* df['date'] = pd.to_datetime(df['date']); df['date'] = df['date'].dt.strftime(..)
NormalizeDate(r) == [r EXCEPT !.date = Strftime(ToDatetime(r.date).ts)]

NormalizeDates(lst) == [i \in 1..Len(lst) |-> NormalizeDate(lst[i])]

---------------------------------------------------------------------------
(* create_df as a whole, and the figure built from its result. *)

\* the records of the loop of create_df, one per source, in discovery order
BuiltList(srcs) ==
    [n \in 1..Len(srcs) |->
        BuildRecord(srcs[n].path, srcs[n].table, srcs[n].nb_objects, n)]

\* utils.load_dataframe raises for some source
LoadRaises(srcs) == \E n \in 1..Len(srcs) : ~srcs[n].ok

\* create_df raises
CreateDfRaises(srcs) == LoadRaises(srcs) \/ ToDatetimeRaises(Dedup(BuiltList(srcs)))

\* what create_df returns when it does not raise
CreateDf(srcs) == NormalizeDates(Dedup(BuiltList(srcs)))

Half == Rat(1, 2)

\* custom_data="date"
CustomData_DateColumn(d) == [i \in 1..Len(d) |-> <<d[i].date.s>>]

\* custom_data="filename": the customdata of each point of the trace
CustomData(d) == [i \in 1..Len(d) |-> <<d[i].filename>>]

\* create_world_map_fig: one trace with one point per row of self.df
CreateWorldMapFig(d) ==
    [size       |-> [i \in 1..Len(d) |-> 10],
     opacity    |-> [i \in 1..Len(d) |-> Half],
     customdata |-> CustomData(d)]

\* self.publisher
Publisher == "visualization/dataset"

\* clickData: None, or the clicked point's number and customdata; an empty
\* customdata stands for a point that carries none
NoClick == [isNone |-> TRUE, pointNumber |-> 0, customdata |-> <<>>]
Click(pointNumber, customdata) ==
    [isNone |-> FALSE, pointNumber |-> pointNumber, customdata |-> customdata]

\* an update that leaves earlier selections emphasized
Opacity_KeepHighlighted(d, old, pointNumber) ==
    [i \in 1..Len(d) |-> IF i - 1 = pointNumber \/ old[i] = One THEN One ELSE Half]

\* [1 if i == selected_point['pointNumber'] else 0.5 for i in range(len(self.df))]
Opacity(d, old, pointNumber) ==
    [i \in 1..Len(d) |-> IF i - 1 = pointNumber THEN One ELSE Half]

---------------------------------------------------------------------------
(* Values of the variables a specification does not use. *)

Unused == "unused"
NotYet == "not yet"

IdleAssemble == sources = <<>> /\ data_list = <<>> /\ df = NotYet
IdleSelect   == fig = NotYet /\ published = <<>> /\ clickData = NoClick
                /\ handled = NotYet
IdleGetValue == column = Unused /\ default = Unused /\ value = NotYet
IdleBuild    == nb_objects = 0 /\ data = NotYet
IdleTable    == df_temp = Unused
IdlePath     == tsv = <<>> /\ filename = NotYet

---------------------------------------------------------------------------
(* get_value alone: every table of GetValueTables, column and default.     *)

Zero == Rat(0, 1)

\* first-row cells: numbers, NaN, an infinity, texts that parse and texts
\* that do not, None
GetValueCells ==
    {FloatCell(Zero), FloatCell(One), FloatCell(Rat(5, 2)), FloatCell(Rat(-3, 1)),
     FloatCell(NaN), FloatCell(Inf(1)), None,
     StrCell(<<>>), StrCell(<<"0">>), StrCell(<<"0", ".", "0">>),
     StrCell(<<"-", "0">>), StrCell(<<"2">>), StrCell(<<"2", ".", "5">>),
     StrCell(<<".", "5">>), StrCell(<<"+", "7">>), StrCell(<<"-">>),
     StrCell(<<"a", "b", "c">>), StrCell(<<"2", "a">>),
     StrCell(<<"1", ".", "2", ".", "3">>), StrCell(<<"n", "a", "n">>),
     StrCell(<<"i", "n", "f">>), StrCell(<<"-", "i", "n", "f">>)}

GetValueTables ==
    {[empty |-> e, row |-> r] :
        e \in BOOLEAN,
        r \in UNION {[cols -> GetValueCells] :
                        cols \in {{}, {"acq_imaged_volume"}, {"object_lat"}}}}

GetValueDefaults == {Zero, One, Rat(2, 1), Rat(-1, 2)}

InitGetValue ==
    /\ pc = "get_value"
    /\ df_temp \in GetValueTables
    /\ column \in {"acq_imaged_volume", "sample_total_volume"}
    /\ default \in GetValueDefaults
    /\ value = NotYet
    /\ IdleAssemble /\ IdleSelect /\ IdleBuild /\ IdlePath

CallGetValue ==
    /\ pc = "get_value"
    /\ value' = GetValue(df_temp, column, default)
    /\ pc' = "returned"
    /\ UNCHANGED <<sources, data_list, df, fig, published, clickData, handled,
                   df_temp, nb_objects, tsv, column, default, data, filename>>

SpecGetValue == InitGetValue /\ [][CallGetValue]_vars

---------------------------------------------------------------------------
(* One iteration of the loop of create_df alone: every table of            *)
(* BuildTables and object count.                                           *)

VolumeColumns == {"acq_imaged_volume", "sample_dilution_factor",
                  "sample_concentrated_sample_volume", "sample_total_volume"}

VolumeCells ==
    {FloatCell(Zero), FloatCell(Rat(2, 1)), FloatCell(Rat(5, 1)),
     FloatCell(Rat(10, 1)), FloatCell(Rat(25, 1)), FloatCell(NaN),
     StrCell(<<"a", "b", "c">>)}

BuildTables ==
    {[empty |-> e, row |-> r] :
        e \in BOOLEAN,
        r \in UNION {[cols -> VolumeCells] : cols \in SUBSET VolumeColumns}}

ObjectCounts == {0, 3, 100}

SamplePath == <<"e", ".", "z", "i", "p", ":", "s">>

InitBuild ==
    /\ pc = "build"
    /\ df_temp \in BuildTables
    /\ nb_objects \in ObjectCounts
    /\ tsv = SamplePath
    /\ data = NotYet
    /\ filename = NotYet
    /\ IdleAssemble /\ IdleSelect /\ IdleGetValue

Build ==
    /\ pc = "build"
    /\ data' = BuildRecord(tsv, df_temp, nb_objects, 1)
    /\ pc' = "built"
    /\ UNCHANGED <<sources, data_list, df, fig, published, clickData, handled,
                   df_temp, nb_objects, tsv, column, default, value, filename>>

SpecBuild == InitBuild /\ [][Build]_vars

---------------------------------------------------------------------------
(* The filename alone: every path made of at most MaxPieces pieces.        *)

MaxPieces == 5

Pieces == {ZipToken, <<"z", "i">>, <<"p", ":">>, <<"s">>, <<"/">>}

RECURSIVE PathsOf(_)
PathsOf(k) ==
    IF k = 0 THEN {<<>>}
    ELSE LET P == PathsOf(k - 1) IN P \cup {p \o q : p \in P, q \in Pieces}

InitFilename ==
    /\ pc = "filename"
    /\ tsv \in PathsOf(MaxPieces)
    /\ filename = NotYet
    /\ IdleAssemble /\ IdleSelect /\ IdleGetValue /\ IdleBuild /\ IdleTable

ComputeFilename ==
    /\ pc = "filename"
    /\ filename' = FileName(tsv)
    /\ pc' = "named"
    /\ UNCHANGED <<sources, data_list, df, fig, published, clickData, handled,
                   df_temp, nb_objects, tsv, column, default, value, data>>

SpecFilename == InitFilename /\ [][ComputeFilename]_vars

---------------------------------------------------------------------------
(* Claims about get_value, the record of one source and the filename.      *)

C4_Scalar(c) ==
    IF c \in DOMAIN df_temp.row /\ ~df_temp.empty
       /\ PyFloat(df_temp.row[c]).exc = "none" /\ ~IsZero(PyFloat(df_temp.row[c]).v)
    THEN PyFloat(df_temp.row[c]).v ELSE One

C4_Formula ==
    LET iv  == C4_Scalar("acq_imaged_volume")
        dil == C4_Scalar("sample_dilution_factor")
        csv == C4_Scalar("sample_concentrated_sample_volume")
        tv  == C4_Scalar("sample_total_volume")
        c   == data.objects_ml.v
    IN  IF \A x \in {iv, dil, csv, tv} : IsFinite(x)
        THEN c = Rat(nb_objects * dil.n * csv.n * iv.d * tv.d,
                     iv.n * tv.n * 1000 * dil.d * csv.d)
        ELSE c = NaN

C4_ExampleTable ==
    /\ ~df_temp.empty
    /\ DOMAIN df_temp.row = VolumeColumns
    /\ df_temp.row["acq_imaged_volume"] = FloatCell(Rat(10, 1))
    /\ df_temp.row["sample_dilution_factor"] = FloatCell(Rat(2, 1))
    /\ df_temp.row["sample_concentrated_sample_volume"] = FloatCell(Rat(5, 1))
    /\ df_temp.row["sample_total_volume"] = FloatCell(Rat(25, 1))
    /\ nb_objects = 100

\* C4 as stated: the concentration is (objectCount / imagedVolume) *
\* dilutionFactor * (concentratedSampleVolume / (totalSampleVolume * 1000))
\* of the four extracted scalars; 100, 10, 2, 5, 25 give 0.008; no column
\* gives objectCount / 1000.
C4_Original ==
    pc = "built" =>
        /\ C4_Formula
        /\ C4_ExampleTable => data.objects_ml.v = Rat(8, 1000)
        /\ DOMAIN df_temp.row = {} => data.objects_ml.v = Rat(nb_objects, 1000)

\* C4 amended: the same formula; 100, 10, 2, 5, 25 give 0.004; no column
\* gives objectCount / 1000.
C4_Concentration ==
    pc = "built" =>
        /\ C4_Formula
        /\ C4_ExampleTable => data.objects_ml.v = Rat(4, 1000)
        /\ DOMAIN df_temp.row = {} => data.objects_ml.v = Rat(nb_objects, 1000)

\* C4 witness: the record of the example table has been built.
C4_Witness ==
    pc = "built" /\ C4_ExampleTable /\ data.objects_ml = FloatCell(Rat(1, 250))

\* C5: the concentration of the built record is always a finite number.
C5_AlwaysFinite == pc = "built" => IsFinite(data.objects_ml.v)

IsSuffixFrom(r, b, j) == r = SubSeq(b, j + 1, Len(b))
HasToken(s) == \E i \in 1..(Len(s) - 3) : SubSeq(s, i, i + 3) = ZipToken

\* the last path segment of p
C7_LastSegment(b, p) ==
    \E k \in 0..Len(p) :
        /\ IsSuffixFrom(b, p, k)
        /\ \A i \in 1..Len(b) : b[i] # "/"
        /\ k = 0 \/ p[k] = "/"

\* C7: the filename is the last path segment with everything up to and
\* including the last "zip:" removed; "archive.zip:sample_001.tsv" gives
\* "sample_001.tsv"; a path without "zip:" gives its last segment.
C7_Filename ==
    /\ pc = "named" =>
        \E k \in 0..Len(tsv) :
            LET b == SubSeq(tsv, k + 1, Len(tsv))
            IN  /\ C7_LastSegment(b, tsv)
                /\ \E j \in 0..Len(b) :
                      /\ IsSuffixFrom(filename, b, j)
                      /\ ~HasToken(filename)
                      /\ j = 0 \/ (j >= 4 /\ SubSeq(b, j - 3, j) = ZipToken)
                /\ ~HasToken(tsv) => filename = b
    /\ FileName(<<"a", "r", "c", "h", "i", "v", "e", ".", "z", "i", "p", ":",
                  "s", "a", "m", "p", "l", "e", "_", "0", "0", "1", ".", "t", "s", "v">>)
         = <<"s", "a", "m", "p", "l", "e", "_", "0", "0", "1", ".", "t", "s", "v">>

\* C7 witness: a path with a directory and two "zip:" tokens in its last
\* segment has been reduced to what follows the last token.
C7_Witness ==
    /\ pc = "named"
    /\ tsv = <<"s", "/", "z", "i", "p", ":", "z", "i", "p", ":", "s">>
    /\ filename = <<"s">>

---------------------------------------------------------------------------
(* create_df step by step, for every sequence of at most MaxSources        *)
(* sources drawn from SampleSources.                                       *)

MaxSources == 3

Morning == StrCell(<<"2", "0", "2", "3", "-", "0", "7", "-", "0", "4", "T",
                     "1", "0", ":", "1", "5", ":", "0", "0">>)
Evening == StrCell(<<"2", "0", "2", "3", "-", "0", "7", "-", "0", "4", "T",
                     "1", "8", ":", "0", "0", ":", "0", "0">>)
NotADate == StrCell(<<"n", "/", "a">>)

Located(date) ==
    [empty |-> FALSE,
     row |-> [c \in {"acq_local_datetime", "object_lat", "object_lon"} |->
                IF c = "acq_local_datetime" THEN date
                ELSE IF c = "object_lat" THEN FloatCell(Rat(48, 1))
                ELSE FloatCell(Rat(-4, 1))]]

NoRows ==
    [empty |-> TRUE,
     row |-> [c \in {"acq_local_datetime", "object_lat", "object_lon",
                     "acq_imaged_volume"} |-> None]]

NoLatitude ==
    [empty |-> FALSE, row |-> [c \in {"object_lat"} |-> FloatCell(NaN)]]

Source(path, table, nb) ==
    [path |-> path, ok |-> TRUE, table |-> table, nb_objects |-> nb]

Unreadable(path) ==
    [path |-> path, ok |-> FALSE, table |-> NoRows, nb_objects |-> 0]

InArchiveA == <<"a", ".", "z", "i", "p", ":", "s">>
InArchiveB == <<"d", "/", "b", ".", "z", "i", "p", ":", "s">>
PlainT == <<"d", "/", "t">>

SrcMorning  == Source(InArchiveA, Located(Morning), 1)
SrcCopy     == Source(InArchiveB, Located(Morning), 1)
SrcEvening  == Source(InArchiveB, Located(Evening), 1)
SrcDenser   == Source(InArchiveA, Located(Morning), 2)
SrcNoRows   == Source(InArchiveA, NoRows, 1)
SrcNoLat    == Source(PlainT, NoLatitude, 1)
SrcBadDate  == Source(PlainT, Located(NotADate), 1)
SrcCorrupt  == Unreadable(PlainT)

SampleSources == {SrcMorning, SrcCopy, SrcEvening, SrcDenser, SrcNoRows,
                  SrcNoLat, SrcBadDate, SrcCorrupt}

SeqsUpTo(S, k) == UNION {[1..n -> S] : n \in 0..k}

InitAssemble ==
    /\ pc = "loop"
    /\ sources \in SeqsUpTo(SampleSources, MaxSources)
    /\ data_list = <<>>
    /\ df = NotYet
    /\ IdleSelect /\ IdleGetValue /\ IdleBuild /\ IdleTable /\ IdlePath

\* one iteration of "for tsv in tsvs": load, build, append; a failure of
\* load_dataframe leaves create_df
LoadAndBuild ==
    /\ pc = "loop"
    /\ Len(data_list) < Len(sources)
    /\ LET n == Len(data_list) + 1
           src == sources[n]
       IN  IF src.ok
           THEN /\ data_list' = Append(data_list,
                       BuildRecord(src.path, src.table, src.nb_objects, n))
                /\ pc' = "loop"
           ELSE /\ pc' = "failed"
                /\ UNCHANGED data_list
    /\ UNCHANGED <<sources, df, fig, published, clickData, handled, df_temp,
                   nb_objects, tsv, column, default, value, data, filename>>

\* "delete duplicates", after the loop
DeleteDuplicates ==
    /\ pc = "loop"
    /\ Len(data_list) = Len(sources)
    /\ data_list' = Dedup(data_list)
    /\ pc' = "dates"
    /\ UNCHANGED <<sources, df, fig, published, clickData, handled, df_temp,
                   nb_objects, tsv, column, default, value, data, filename>>

\* pd.concat, pd.to_datetime and strftime, then return df
TransformDates ==
    /\ pc = "dates"
    /\ IF ToDatetimeRaises(data_list)
       THEN pc' = "failed" /\ UNCHANGED df
       ELSE pc' = "done" /\ df' = NormalizeDates(data_list)
    /\ UNCHANGED <<sources, data_list, fig, published, clickData, handled,
                   df_temp, nb_objects, tsv, column, default, value, data,
                   filename>>

NextAssemble == LoadAndBuild \/ DeleteDuplicates \/ TransformDates

SpecAssemble == InitAssemble /\ [][NextAssemble]_vars

---------------------------------------------------------------------------
(* The callback select_point on a constructed WorldMap: the dataset of     *)
(* every sequence of at most MaxPoints sources on which create_df does not *)
(* raise, and at most MaxClicks publications.                              *)

MaxPoints == 2
MaxClicks == 2

InitSelect ==
    /\ pc = "serving"
    /\ \E srcs \in SeqsUpTo(SampleSources, MaxPoints) :
          /\ ~CreateDfRaises(srcs)
          /\ df = CreateDf(srcs)
    /\ fig = CreateWorldMapFig(df)
    /\ published = <<>>
    /\ clickData = NoClick
    /\ handled = NotYet
    /\ sources = <<>> /\ data_list = <<>>
    /\ IdleGetValue /\ IdleBuild /\ IdleTable /\ IdlePath

\* select_point(clickData)
SelectPoint(cd) ==
    /\ pc = "serving"
    /\ clickData' = cd
    /\ IF cd.isNone
       THEN /\ handled' = "no_update"
            /\ UNCHANGED <<fig, published>>
       ELSE /\ fig' = [fig EXCEPT !.opacity = Opacity(df, fig.opacity, cd.pointNumber)]
            /\ IF cd.customdata = <<>>
               THEN /\ handled' = "raised"
                    /\ UNCHANGED published
               ELSE /\ Len(published) < MaxClicks
                    /\ published' = Append(published, <<Publisher, cd.customdata[1]>>)
                    /\ handled' = "figure"
    /\ UNCHANGED <<sources, pc, data_list, df, df_temp, nb_objects, tsv,
                   column, default, value, data, filename>>

\* the callback fires with no click data
NoClickEvent == SelectPoint(NoClick)

\* a click on point i of the rendered figure: the front end sends the
\* point's number and the customdata the figure holds for it
ClickPoint ==
    \E i \in 1..Len(df) :
        SelectPoint(Click(i - 1, fig.customdata[i]))

\* a request the rendered figure cannot produce: a point number outside the
\* dataset, with some customdata or none
ForeignName == <<"x">>
ClickOutOfRange ==
    \E k \in {-1, Len(df)}, c \in {<<>>, <<ForeignName>>} :
        SelectPoint(Click(k, c))

NextSelect == NoClickEvent \/ ClickPoint \/ ClickOutOfRange

SpecSelect == InitSelect /\ [][NextSelect]_vars

---------------------------------------------------------------------------
(* Claims about create_df. *)

ValueEqual(x, y) ==
    ~IsNaNCell(x) /\ ~IsNaNCell(y) /\ x.t = y.t /\ x.v = y.v /\ x.s = y.s

\* two records equal in all five fields
SameRecord(a, b) ==
    /\ a.filename = b.filename
    /\ ValueEqual(a.objects_ml, b.objects_ml)
    /\ ValueEqual(a.date, b.date)
    /\ ValueEqual(a.lat, b.lat)
    /\ ValueEqual(a.lon, b.lon)

\* C1: the dataset create_df returns holds no two records that are equal in
\* all five fields.
C1_NoDuplicates ==
    pc = "done" =>
        \A i, j \in 1..Len(df) : i < j => ~SameRecord(df[i], df[j])

\* the r-th smallest member of the set K of positions
Nth(K, r) == CHOOSE n \in K : Cardinality({m \in K : m <= n}) = r

\* C2: after the removal of duplicates data_list is the built records at the
\* positions that no later equal record follows, in discovery order; one
\* record survives per group of equal records, the last; records that
\* differ pairwise are all kept.
C2_KeepLast ==
    pc = "dates" =>
        LET built == BuiltList(sources)
            N     == Len(built)
            kept  == {n \in 1..N : \A m \in (n + 1)..N : built[m] # built[n]}
        IN  /\ Len(data_list) = Cardinality(kept)
            /\ \A r \in 1..Len(data_list) : data_list[r] = built[Nth(kept, r)]
            /\ \A n \in 1..N :
                  Cardinality({r \in 1..Len(data_list) : data_list[r] = built[n]}) = 1
            /\ (\A n, m \in 1..N : n # m => built[n] # built[m]) => data_list = built

\* C2 witness: of two equal records around one that differs only in its
\* concentration, the first was removed.
C2_Witness ==
    /\ pc = "dates"
    /\ sources = <<SrcMorning, SrcDenser, SrcCopy>>
    /\ Len(data_list) = 2
    /\ data_list[1].objects_ml = FloatCell(Rat(2, 1000))
    /\ data_list[2].objects_ml = FloatCell(Rat(1, 1000))

C6_Unparsable(src) ==
    /\ src.ok
    /\ "acq_local_datetime" \in DOMAIN src.table.row
    /\ ~src.table.empty
    /\ src.table.row["acq_local_datetime"].t = "str"
    /\ ParseDatetime(src.table.row["acq_local_datetime"].s).exc # "none"

\* C6: when load_dataframe fails for a source, or a record holds a date
\* that does not parse, create_df raises and returns no dataset; it never
\* returns a dataset without that source or with the date made absent.
C6_AllOrNothing ==
    LET defect == \E n \in 1..Len(sources) :
                     ~sources[n].ok \/ C6_Unparsable(sources[n])
    IN  /\ defect => pc # "done" /\ df = NotYet
        /\ defect /\ pc \notin {"loop", "dates"} => pc = "failed"
        /\ pc = "failed" => df = NotYet

\* C6 witness: every source loaded and the date of the second did not
\* parse: create_df raised.
C6_Witness ==
    /\ pc = "failed"
    /\ sources = <<SrcMorning, SrcBadDate>>
    /\ Len(data_list) = 2
    /\ df = NotYet

---------------------------------------------------------------------------
(* Claims about select_point. *)

C8_Valid(cd) == ~cd.isNone /\ cd.pointNumber \in 0..(Len(df) - 1)

\* C8: every call of select_point for a valid index i publishes exactly
\* once, on "visualization/dataset", the filename of record i, and leaves
\* the dataset as it was; a call without click data publishes nothing.
C8_PublishOnce ==
    [][/\ df' = df
       /\ clickData'.isNone => published' = published
       /\ C8_Valid(clickData') =>
            published' = Append(published,
                <<"visualization/dataset", df[clickData'.pointNumber + 1].filename>>)
      ]_vars

\* C8 witness: a click on the second of two points was answered with the
\* figure after one publication of that record's filename.
C8_Witness ==
    /\ pc = "serving"
    /\ handled = "figure"
    /\ Len(df) = 2
    /\ df[1].filename # df[2].filename
    /\ clickData = Click(1, <<df[2].filename>>)
    /\ published = <<<<"visualization/dataset", df[2].filename>>>>

\* C9: a call of select_point with an index outside the dataset fails,
\* publishes nothing and leaves the presentation state as it was.
C9_OutOfRangeFatal ==
    [][(~clickData'.isNone /\ ~C8_Valid(clickData')) =>
            /\ handled' = "raised"
            /\ published' = published
            /\ fig' = fig
      ]_vars

\* C10: the opacity vector has one entry per record; all are 0.5 at first;
\* a valid selection leaves exactly the selected entry at 1 and every
\* other entry, whatever was selected before, at 0.5; a call without click
\* data leaves the vector as it was.
C10_Opacity ==
    /\ \A i \in 1..Len(df) : fig.opacity[i] = Half
    /\ [](DOMAIN fig.opacity = 1..Len(df))
    /\ [][/\ C8_Valid(clickData') =>
               /\ {i \in 1..Len(df) : fig'.opacity[i] = One}
                     = {clickData'.pointNumber + 1}
               /\ \A i \in 1..Len(df) :
                     i # clickData'.pointNumber + 1 => fig'.opacity[i] = Half
          /\ clickData'.isNone => fig'.opacity = fig.opacity
         ]_vars

\* C10 witness: after a click on the first point and then on the second,
\* only the second is emphasized.
C10_Witness ==
    /\ pc = "serving"
    /\ Len(df) = 2
    /\ df[1].filename # df[2].filename
    /\ published = <<<<Publisher, df[1].filename>>, <<Publisher, df[2].filename>>>>
    /\ fig.opacity = <<Half, One>>

=============================================================================
